---- MODULE Spec2Model ----
(***************************************************************************)
(* Model of run.py: the result store (append_to_output_file) working on a  *)
(* file of JSON tokens, and the batch driver (process_test_data, main).    *)
(*                                                                         *)
(* A file is a sequence of tokens.  A token is a tuple of strings: one of  *)
(* the punctuation tokens below, or the serialisation of one JSON object   *)
(* (a result record), which is kept atomic.  WS stands for any run of      *)
(* whitespace (json.dump's newline plus indentation), BAD for a byte that  *)
(* the text decoder of open(..., 'r+') rejects.                            *)
(***************************************************************************)
EXTENDS Integers, Sequences, FiniteSets, TLC

\* ------------------------------------------------------------------ bounds
MaxInit == 6
MaxAppends == 2
MaxItems == 2
MaxMissing == 1
MaxPrior == 1
MaxRuns == 2
MaxWriters == 3

\* ------------------------------------------------------------ JSON tokens
LB == <<"[">>
RB == <<"]">>
COMMA == <<",">>
WS == <<"w">>
BAD == <<"?">>

\* A result record as the dict of run.py:99-105, its fields in key order.
Rec(q, c, d1, d2, d3) == [t |-> "obj", v |-> <<q, c, d1, d2, d3>>]
ListVal(items) == [t |-> "list", v |-> items]
IsList(val) == val.t = "list"

ObjTok(val) == <<"{">> \o val.v
IsObjTok(tok) == tok[1] = "{"
ObjVal(tok) == [t |-> "obj", v |-> Tail(tok)]

\* ------------------------------------------------- json.dump(x, f, indent=4)
RECURSIVE DumpItems(_, _)
RECURSIVE Dump(_)
DumpItems(items, i) ==
    IF i > Len(items) THEN <<>>
    ELSE (IF i = 1 THEN <<WS>> ELSE <<COMMA, WS>>)
         \o Dump(items[i]) \o DumpItems(items, i + 1)

Dump(val) ==
    IF IsList(val)
    THEN IF val.v = <<>> THEN <<LB, RB>>
         ELSE <<LB>> \o DumpItems(val.v, 1) \o <<WS, RB>>
    ELSE <<ObjTok(val)>>

\* ------------------------------------------------------------ json.load(f)
Fail == [ok |-> FALSE, val |-> ListVal(<<>>), next |-> 0]

RECURSIVE SkipWs(_, _)
SkipWs(toks, i) ==
    IF i <= Len(toks) /\ toks[i] = WS THEN SkipWs(toks, i + 1) ELSE i

\* The decoder, one value at a time.  st is "first" after '[', "value" after
\* an element, "comma" after ','.  An intermediate result is bound through a
\* singleton set wherever it is used more than once, so that it is evaluated
\* once.
RECURSIVE ParseValue(_, _)
RECURSIVE ParseElems(_, _, _, _)
ParseValueAt(toks, i) ==
    IF i > Len(toks) THEN Fail
    ELSE IF IsObjTok(toks[i])
         THEN [ok |-> TRUE, val |-> ObjVal(toks[i]), next |-> i + 1]
    ELSE IF toks[i] = LB THEN ParseElems(toks, i + 1, <<>>, "first")
    ELSE Fail

ParseValue(toks, i0) ==
    CHOOSE res \in {ParseValueAt(toks, i) : i \in {SkipWs(toks, i0)}} : TRUE

ParseElemThen(toks, e, acc) ==
    IF e.ok THEN ParseElems(toks, e.next, Append(acc, e.val), "value")
    ELSE Fail

ParseElemsAt(toks, i, acc, st) ==
    IF i > Len(toks) THEN Fail
    ELSE IF toks[i] = RB /\ st # "comma"
         THEN [ok |-> TRUE, val |-> ListVal(acc), next |-> i + 1]
    ELSE IF toks[i] = COMMA /\ st = "value"
         THEN ParseElems(toks, i + 1, acc, "comma")
    ELSE IF st = "value" THEN Fail
    ELSE CHOOSE res \in {ParseElemThen(toks, e, acc) :
                            e \in {ParseValue(toks, i)}} : TRUE

ParseElems(toks, i0, acc0, st) ==
    CHOOSE res \in {ParseElemsAt(toks, i, acc, st) :
                       i \in {SkipWs(toks, i0)}, acc \in {acc0}} : TRUE

\* json.loads: one value, then nothing but whitespace ("Extra data" otherwise).
ParseWhole(toks, p) ==
    IF p.ok /\ SkipWs(toks, p.next) > Len(toks) THEN p ELSE Fail

Parse(toks) ==
    CHOOSE res \in {ParseWhole(toks, p) : p \in {ParseValue(toks, 1)}} : TRUE

\* f.read() of a text-mode file: UnicodeDecodeError on an undecodable byte.
Decodable(toks) == \A i \in 1..Len(toks) : toks[i] # BAD

\* ------------------------------------------------------------------ state
VARIABLES
    file,       \* the output file: [exists, content]
    file0,      \* the output file before the first call (history)
    prevFile,   \* the output file before the latest append call (history)
    lastData,   \* the record passed to the latest append call (history)
    appended,   \* the records of the append calls that returned (history)
    raised,     \* the latest append call raised instead of returning
    cfg,        \* the keys present in the loaded configuration
    dataset,    \* the decoded test file: a sequence of items
    pc,         \* where main / process_test_data stands
    total,      \* total_items, the pre-scan's count (line 80)
    idx,        \* how many items the loop's iterator has yielded
    pbar,       \* the progress bar's counter
    question_data, rg_prompt, r, inference, dg_prompt, d, result,
                \* the locals of process_test_data
    failure,    \* the exception in flight or that ended the run, or "none"
    calls,      \* the model calls made: <<stage, item index>>, in order
    answers,    \* the texts the distractor-stage calls returned, in order
    run,        \* which start of main on this output path this is: 1, 2, ...
    held,       \* the list the output file held when this run started
    wpc,        \* concurrent append calls: where each call stands
    wexisting,  \* concurrent append calls: each call's existing_data
    wseen,      \* how many appends had returned when the call looked (history)
    overlap     \* a call began while another was under way (history)

storeVars == <<file, file0, prevFile, lastData, appended, raised>>
inputs == <<cfg, dataset>>
locals == <<question_data, rg_prompt, r, inference, dg_prompt, d, result>>
log == <<calls, answers>>
control == <<pc, total, idx, pbar, failure, log>>
resume == <<run, held>>
writers == <<wpc, wexisting, wseen, overlap>>
outside == <<inputs, resume, writers>>
driverVars == <<outside, locals, control>>
vars == <<storeVars, driverVars>>

NoItem == [question |-> "", correct_answer |-> "", support |-> ""]
NoPrompt == [template |-> "", question |-> NoItem, principle |-> "", prior |-> <<>>]
Absent == [exists |-> FALSE, content |-> <<>>]
FileOf(content) == [exists |-> TRUE, content |-> content]
NoData == Rec("", "", "", "", "")

\* --------------------------------------------- append_to_output_file
\* Mutant: the existing records are never read back.
ExistingDataDiscarded(content) == <<>>

\* Mutant: a value that is not a list is dropped instead of wrapped.
ExistingDataNonListEmpty(content) ==
    CHOOSE res \in {IF p.ok /\ IsList(p.val) THEN p.val.v ELSE <<>> :
                       p \in {Parse(content)}} : TRUE

\* Lines 32-35: the list the call goes on with, given what json.load did.
ExistingOf(p) ==
    IF ~p.ok THEN <<>>
    ELSE IF IsList(p.val) THEN p.val.v
    ELSE <<p.val>>

\* Lines 30-35.
ExistingData(content) ==
    CHOOSE res \in {ExistingOf(p) : p \in {Parse(content)}} : TRUE

\* Lines 37-38: f.seek(0), then the write; the file is not truncated.
Overwrite(old, new) == new \o SubSeq(old, Len(new) + 1, Len(old))

\* What the call writes: json.dump(existing_data, f, indent=4) or, on a
\* missing file, json.dump([data], f, indent=4).
NewSerialization(f, data) ==
    IF f.exists
    THEN CHOOSE ser \in {Dump(ListVal(Append(existing_data, data))) :
                            existing_data \in {ExistingData(f.content)}} : TRUE
    ELSE Dump(ListVal(<<data>>))

\* The file after the first k tokens of the serialisation have been written:
\* 'r+' keeps the old bytes, 'w' has truncated the file on open.
WriteTokens(f, new, k) ==
    IF f.exists THEN FileOf(Overwrite(f.content, SubSeq(new, 1, k)))
    ELSE FileOf(SubSeq(new, 1, k))

\* Mutant: the decoder's error on a zero-length file is not caught either.
AppendRaisesOnEmpty(f) ==
    f.exists /\ (~Decodable(f.content) \/ f.content = <<>>)

\* json.load(f) raises UnicodeDecodeError, which line 34 does not catch.
AppendRaises(f) == f.exists /\ ~Decodable(f.content)

AfterAppend(f, data) ==
    CHOOSE res \in {WriteTokens(f, new, Len(new)) :
                       new \in {NewSerialization(f, data)}} : TRUE

append_to_output_file(data) ==
    /\ prevFile' = file
    /\ lastData' = data
    /\ IF AppendRaises(file)
       THEN /\ raised' = TRUE
            /\ UNCHANGED <<file, appended>>
       ELSE /\ raised' = FALSE
            /\ file' = AfterAppend(file, data)
            /\ appended' = Append(appended, data)
    /\ UNCHANGED file0

\* ---------------------------------------------------- the store on its own
Writers == 1..MaxWriters

\* The first run of main on the output path, and no append call under way.
Alone ==
    /\ run = 1
    /\ held = <<>>
    /\ wpc = [w \in Writers |-> "start"]
    /\ wexisting = [w \in Writers |-> <<>>]
    /\ wseen = [w \in Writers |-> 0]
    /\ overlap = FALSE

SampleRecords == {Rec("q1", "c1", "x", "y", "z"), Rec("q2", "c2", "x", "y", "")}
Alphabet == {LB, RB, COMMA, WS, BAD, ObjTok(Rec("q1", "c1", "x", "y", "z"))}
Contents == UNION {[1..n -> Alphabet] : n \in 0..MaxInit}

StoreInit ==
    /\ file \in {Absent} \cup {FileOf(c) : c \in Contents}
    /\ file0 = file
    /\ prevFile = file
    /\ lastData = NoData
    /\ appended = <<>>
    /\ raised = FALSE
    /\ cfg = {}
    /\ dataset = <<>>
    /\ pc = "store"
    /\ total = 0
    /\ idx = 0
    /\ pbar = 0
    /\ question_data = NoItem
    /\ rg_prompt = NoPrompt
    /\ r = <<>>
    /\ inference = <<>>
    /\ dg_prompt = NoPrompt
    /\ d = <<>>
    /\ result = NoData
    /\ failure = "none"
    /\ calls = <<>>
    /\ answers = <<>>
    /\ Alone

StoreAppend ==
    /\ pc = "store"
    /\ Len(appended) < MaxAppends
    /\ ~raised
    /\ \E data \in SampleRecords : append_to_output_file(data)
    /\ UNCHANGED driverVars

StoreNext == StoreAppend
StoreSpec == StoreInit /\ [][StoreNext]_vars

\* ------------------------------------------------- claims about the store
\* The whole file parses as exactly the list items.
ParsesAs(f, items) ==
    /\ f.exists
    /\ Parse(f.content).ok
    /\ IsList(Parse(f.content).val)
    /\ Parse(f.content).val.v = items

IsPrefix(a, b) == Len(a) <= Len(b) /\ SubSeq(b, 1, Len(a)) = a

\* An append call has been made; prevFile and lastData describe it.
Called == lastData # NoData
PrevParse == Parse(prevFile.content)

\* C1: appending r1..rn (n >= 1) to an initially absent file leaves a file
\* whose parsed content is exactly [r1, ..., rn], in call order.
C1_RoundTrip ==
    (file0 = Absent /\ appended # <<>>) => ParsesAs(file, appended)

C1_Witness ==
    /\ file0 = Absent
    /\ Len(appended) = 2
    /\ appended[1] # appended[2]
    /\ ParsesAs(file, appended)

\* C2: one append on a file holding non-JSON content returns without raising
\* and leaves a file that parses as exactly [r].
C2_CorruptionRecovery ==
    (Called /\ prevFile.exists /\ ~PrevParse.ok)
        => (~raised /\ ParsesAs(file, <<lastData>>))

\* C3: an append on a file holding a valid JSON array A leaves exactly the
\* serialisation of A followed by r, with nothing of the old content after it.
C3_RewriteTruncates ==
    (Called /\ prevFile.exists /\ PrevParse.ok /\ IsList(PrevParse.val))
        => /\ ~raised
           /\ file.content = Dump(ListVal(Append(PrevParse.val.v, lastData)))

\* C4 as stated: an append on a file holding a valid JSON value that is not an
\* array leaves a file that parses as exactly [r].
C4_NonArrayTreatedAsEmpty ==
    (Called /\ prevFile.exists /\ PrevParse.ok /\ ~IsList(PrevParse.val))
        => ParsesAs(file, <<lastData>>)

\* C4 as amended: an append on a file holding a valid JSON value v that is not
\* an array returns and writes the serialisation of [v, r] from the start of
\* the file; the file parses as exactly [v, r] whenever the old content was not
\* longer than that serialisation.
C4_NonArrayWrapped ==
    (Called /\ prevFile.exists /\ PrevParse.ok /\ ~IsList(PrevParse.val))
        => LET kept == <<PrevParse.val, lastData>>
               ser == Dump(ListVal(kept))
           IN /\ ~raised
              /\ IsPrefix(ser, file.content)
              /\ Len(prevFile.content) <= Len(ser) => ParsesAs(file, kept)

C4_Witness ==
    /\ Called
    /\ prevFile.exists
    /\ PrevParse.ok
    /\ ~IsList(PrevParse.val)
    /\ ParsesAs(file, <<PrevParse.val, lastData>>)

\* C14: an append on a missing file or on an existing zero-length file returns
\* without raising and leaves a file that parses as exactly [r].
C14_MissingOrEmpty ==
    (Called /\ prevFile \in {Absent, FileOf(<<>>)})
        => (~raised /\ ParsesAs(file, <<lastData>>))

C14_Witness ==
    /\ Called
    /\ prevFile = FileOf(<<>>)
    /\ file0 = prevFile
    /\ ~raised
    /\ ParsesAs(file, <<lastData>>)

\* ------------------------------------------------ the driver's collaborators
\* The keys main looks up before process_test_data (lines 129-146) and the
\* keys of the selected prompt style that process_test_data looks up.
MainKeys == {"distractor_principle", "prompt_types", "files", "test_file",
             "output_file", "temperature", "top_p", "presence_penalty"}
StyleKeys == {"rg", "format", "dg"}
CfgKeys == MainKeys \cup StyleKeys
Configs == {c \in SUBSET CfgKeys : Cardinality(CfgKeys \ c) <= MaxMissing}

Items == {[question |-> "q1", correct_answer |-> "c1", support |-> "s1"],
          [question |-> "q2", correct_answer |-> "c2", support |-> "s2"]}
Datasets == UNION {[1..n -> Items] : n \in 0..MaxItems}

\* What the model may answer: a rationale with or without a preamble, and a
\* text with two or with four enumerated candidates, or with none.
RationaleOutputs == {<<"preamble", "r1">>, <<"r2">>}
DistractorOutputs == {<<>>, <<"x", "y">>, <<"x", "y", "z", "u">>}

PriorRecords == {Rec("q0", "c0", "k", "l", "m")}
PriorLists == UNION {[1..n -> PriorRecords] : n \in 1..MaxPrior}

\* read_test_data_iter: the items of the decoded file, three fields each.
read_test_data_iter(data) ==
    [i \in 1..Len(data) |->
        [question |-> data[i].question,
         correct_answer |-> data[i].correct_answer,
         support |-> data[i].support]]

\* pf.producePrompt(template, question_data[, principle]): the filled template.
producePrompt(template, qd, principle) ==
    [template |-> template, question |-> qd, principle |-> principle,
     prior |-> <<>>]

\* format_rationale_output(r, fmt): the preamble stripped, else the text as is.
format_rationale_output(raw) ==
    IF raw # <<>> /\ Head(raw) = "preamble" THEN Tail(raw) ELSE raw

\* format_distractor_output(d): the first three candidates, "" for a missing one.
format_distractor_output(raw) ==
    [distractor1 |-> IF Len(raw) >= 1 THEN raw[1] ELSE "",
     distractor2 |-> IF Len(raw) >= 2 THEN raw[2] ELSE "",
     distractor3 |-> IF Len(raw) >= 3 THEN raw[3] ELSE ""]

\* Mutant: two distractor fields are filled from each other's slot.
ResultOfSwapped(qd, extracted) ==
    Rec(qd.question, qd.correct_answer, extracted.distractor2,
        extracted.distractor1, extracted.distractor3)

\* Lines 99-105: the result record.
ResultOf(qd, extracted) ==
    Rec(qd.question, qd.correct_answer, extracted.distractor1,
        extracted.distractor2, extracted.distractor3)

\* ------------------------------------------------------------- the driver
Init ==
    /\ file \in {Absent} \cup {FileOf(Dump(ListVal(p))) : p \in PriorLists}
    /\ file0 = file
    /\ prevFile = file
    /\ lastData = NoData
    /\ appended = <<>>
    /\ raised = FALSE
    /\ cfg \in Configs
    /\ dataset \in Datasets
    /\ pc = "main"
    /\ total = 0
    /\ idx = 0
    /\ pbar = 0
    /\ question_data = NoItem
    /\ rg_prompt = NoPrompt
    /\ r = <<>>
    /\ inference = <<>>
    /\ dg_prompt = NoPrompt
    /\ d = <<>>
    /\ result = NoData
    /\ failure = "none"
    /\ calls = <<>>
    /\ answers = <<>>
    /\ Alone

\* Mutant: the exception leaves the loop without the finally clause.
RaiseSkipsFinally(kind) ==
    /\ failure' = kind
    /\ pc' = "aborted"

\* Mutant: a failed step is swallowed and attempted again.
RaiseRetries(kind) ==
    /\ failure' = "none"
    /\ pc' = pc

\* An exception raised inside the try of lines 86-106: the finally clause
\* runs, then the exception leaves process_test_data.
Raise(kind) ==
    /\ failure' = kind
    /\ pc' = "finally"

\* main, lines 128-146: every lookup before process_test_data is called.
Main ==
    /\ pc = "main"
    /\ IF MainKeys \subseteq cfg
       THEN pc' = "prescan" /\ UNCHANGED failure
       ELSE pc' = "aborted" /\ failure' = "config"
    /\ UNCHANGED <<storeVars, outside, locals, total, idx, pbar, log>>

\* Line 80: the pre-scan.
PreScan ==
    /\ pc = "prescan"
    /\ total' = Len(read_test_data_iter(dataset))
    /\ pc' = "loop"
    /\ UNCHANGED <<storeVars, outside, locals, idx, pbar, failure, log>>

\* Mutant: an item whose question the output file already held when the run
\* started is counted as done and not processed again.
PullSkipsStored ==
    /\ pc = "loop"
    /\ idx < Len(read_test_data_iter(dataset))
    /\ idx' = idx + 1
    /\ IF \E k \in 1..Len(held) :
              held[k].v[1] = read_test_data_iter(dataset)[idx + 1].question
       THEN /\ pbar' = pbar + 1
            /\ UNCHANGED <<question_data, pc>>
       ELSE /\ question_data' = read_test_data_iter(dataset)[idx + 1]
            /\ pc' = "rg_prompt"
            /\ UNCHANGED pbar
    /\ UNCHANGED <<storeVars, outside, rg_prompt, r, inference, dg_prompt, d,
                   result, total, failure, log>>

\* Line 85: the iterator yields the next item.
Pull ==
    /\ pc = "loop"
    /\ idx < Len(read_test_data_iter(dataset))
    /\ idx' = idx + 1
    /\ question_data' = read_test_data_iter(dataset)[idx + 1]
    /\ pc' = "rg_prompt"
    /\ UNCHANGED <<storeVars, outside, rg_prompt, r, inference, dg_prompt, d,
                   result, total, pbar, failure, log>>

\* Lines 111-113: the iterator is exhausted.
Finish ==
    /\ pc = "loop"
    /\ idx = Len(read_test_data_iter(dataset))
    /\ pc' = "done"
    /\ UNCHANGED <<storeVars, outside, locals, total, idx, pbar, failure, log>>

\* Line 87.
BuildRg ==
    /\ pc = "rg_prompt"
    /\ IF "rg" \in cfg
       THEN /\ rg_prompt' = producePrompt("rg", question_data, "principle")
            /\ pc' = "rg_call"
            /\ UNCHANGED failure
       ELSE /\ Raise("config")
            /\ UNCHANGED rg_prompt
    /\ UNCHANGED <<storeVars, outside, question_data, r, inference, dg_prompt,
                   d, result, total, idx, pbar, log>>

\* Line 88: the model answers, or the call raises.
CallRg ==
    /\ pc = "rg_call"
    /\ calls' = Append(calls, <<"rg", idx>>)
    /\ UNCHANGED answers
    /\ \/ \E out \in RationaleOutputs :
            r' = out /\ pc' = "rationale" /\ UNCHANGED failure
       \/ Raise("gateway") /\ UNCHANGED r
    /\ UNCHANGED <<storeVars, outside, question_data, rg_prompt, inference,
                   dg_prompt, d, result, total, idx, pbar>>

\* Line 91.
FormatRationale ==
    /\ pc = "rationale"
    /\ IF "format" \in cfg
       THEN /\ inference' = format_rationale_output(r)
            /\ pc' = "dg_prompt"
            /\ UNCHANGED failure
       ELSE /\ Raise("config")
            /\ UNCHANGED inference
    /\ UNCHANGED <<storeVars, outside, question_data, rg_prompt, r, dg_prompt,
                   d, result, total, idx, pbar, log>>

\* Mutant: the extracted rationale is handed to the distractor prompt.
BuildDgUsesRationale ==
    /\ pc = "dg_prompt"
    /\ IF "dg" \in cfg
       THEN /\ dg_prompt' = [producePrompt("dg", question_data, "")
                                EXCEPT !.prior = inference]
            /\ pc' = "dg_call"
            /\ UNCHANGED failure
       ELSE /\ Raise("config")
            /\ UNCHANGED dg_prompt
    /\ UNCHANGED <<storeVars, outside, question_data, rg_prompt, r, inference,
                   d, result, total, idx, pbar, log>>

\* Line 92: the prompt is built from the question record alone.
BuildDg ==
    /\ pc = "dg_prompt"
    /\ IF "dg" \in cfg
       THEN /\ dg_prompt' = producePrompt("dg", question_data, "")
            /\ pc' = "dg_call"
            /\ UNCHANGED failure
       ELSE /\ Raise("config")
            /\ UNCHANGED dg_prompt
    /\ UNCHANGED <<storeVars, outside, question_data, rg_prompt, r, inference,
                   d, result, total, idx, pbar, log>>

\* Line 94.
CallDg ==
    /\ pc = "dg_call"
    /\ calls' = Append(calls, <<"dg", idx>>)
    /\ \/ \E out \in DistractorOutputs :
            /\ d' = out
            /\ answers' = Append(answers, out)
            /\ pc' = "extract"
            /\ UNCHANGED failure
       \/ Raise("gateway") /\ UNCHANGED <<d, answers>>
    /\ UNCHANGED <<storeVars, outside, question_data, rg_prompt, r, inference,
                   dg_prompt, result, total, idx, pbar>>

\* Lines 97-105.
Extract ==
    /\ pc = "extract"
    /\ result' = ResultOf(question_data, format_distractor_output(d))
    /\ pc' = "append"
    /\ UNCHANGED <<storeVars, outside, question_data, rg_prompt, r, inference,
                   dg_prompt, d, total, idx, pbar, failure, log>>

\* Mutant: a record with an empty distractor field is not stored.
AppendResultSkipsShortfall ==
    /\ pc = "append"
    /\ IF result.v[5] = ""
       THEN UNCHANGED storeVars
       ELSE append_to_output_file(result)
    /\ pc' = "finally"
    /\ UNCHANGED <<outside, locals, total, idx, pbar, failure, log>>

\* Line 106.
AppendResult ==
    /\ pc = "append"
    /\ append_to_output_file(result)
    /\ IF AppendRaises(file)
       THEN Raise("decode")
       ELSE pc' = "finally" /\ UNCHANGED failure
    /\ UNCHANGED <<outside, locals, total, idx, pbar, log>>

\* Mutant: the record is stored in the finally clause, failed item or not.
FinallyAppends ==
    /\ pc = "finally"
    /\ pbar' = pbar + 1
    /\ pc' = IF failure = "none" THEN "loop" ELSE "aborted"
    /\ IF failure = "none" THEN UNCHANGED storeVars
       ELSE append_to_output_file(ResultOf(question_data,
                                           format_distractor_output(d)))
    /\ UNCHANGED <<outside, locals, total, idx, failure, log>>

\* Mutant: the progress bar moves only for an item that was stored.
FinallyCountsStored ==
    /\ pc = "finally"
    /\ pbar' = IF failure = "none" THEN pbar + 1 ELSE pbar
    /\ pc' = IF failure = "none" THEN "loop" ELSE "aborted"
    /\ UNCHANGED <<storeVars, outside, locals, total, idx, failure, log>>

\* Mutant: the exception is swallowed and the loop goes on with the next item.
FinallyContinues ==
    /\ pc = "finally"
    /\ pbar' = pbar + 1
    /\ pc' = "loop"
    /\ failure' = "none"
    /\ UNCHANGED <<storeVars, outside, locals, total, idx, log>>

\* Lines 107-109: the progress bar moves; an exception in flight goes on.
Finally ==
    /\ pc = "finally"
    /\ pbar' = pbar + 1
    /\ pc' = IF failure = "none" THEN "loop" ELSE "aborted"
    /\ UNCHANGED <<storeVars, outside, locals, total, idx, failure, log>>

Running == pc \notin {"store", "done", "aborted", "interrupted"}

\* The process is terminated from outside, between two steps.
Interrupt ==
    /\ Running
    /\ pc' = "interrupted"
    /\ UNCHANGED <<storeVars, outside, locals, total, idx, pbar, failure, log>>

\* The process is terminated inside append_to_output_file, after the file was
\* opened and k tokens of the serialisation reached it.
InterruptWrite ==
    /\ pc = "append"
    /\ ~AppendRaises(file)
    /\ \E new \in {NewSerialization(file, result)} :
            \E k \in 0..Len(new) : file' = WriteTokens(file, new, k)
    /\ prevFile' = file
    /\ lastData' = result
    /\ pc' = "interrupted"
    /\ UNCHANGED <<file0, appended, raised, outside, locals, total, idx, pbar,
                   failure, log>>

Step ==
    \/ Main \/ PreScan \/ Pull \/ Finish \/ BuildRg \/ CallRg
    \/ FormatRationale \/ BuildDg \/ CallDg \/ Extract \/ AppendResult
    \/ Finally

Next == Step \/ Interrupt \/ InterruptWrite

Spec == Init /\ [][Next]_vars

\* The process, left alone, takes its next step.
LiveSpec == Spec /\ WF_vars(Step)

\* The list an append call on f would go on with.
ListOf(f) ==
    IF f.exists /\ Decodable(f.content) THEN ExistingData(f.content) ELSE <<>>

\* Lines 116-149 and 152: the program is started again with the same
\* configuration, dataset and output path.  Nothing of the earlier process is
\* left but the output file.
Restart ==
    /\ pc = "interrupted"
    /\ run < MaxRuns
    /\ run' = run + 1
    /\ held' = ListOf(file)
    /\ pc' = "main"
    /\ total' = 0
    /\ idx' = 0
    /\ pbar' = 0
    /\ question_data' = NoItem
    /\ rg_prompt' = NoPrompt
    /\ r' = <<>>
    /\ inference' = <<>>
    /\ dg_prompt' = NoPrompt
    /\ d' = <<>>
    /\ result' = NoData
    /\ failure' = "none"
    /\ calls' = <<>>
    /\ answers' = <<>>
    /\ UNCHANGED <<storeVars, inputs, writers>>

\* Runs that are interrupted between two append calls and started again.
ResumeNext == Step \/ Interrupt \/ Restart

ResumeSpec == Init /\ [][ResumeNext]_vars

\* ------------------------------- append calls of several writers, one file
\* Each writer makes one call of append_to_output_file, with its own record.
\* A call is the steps of lines 28-41; between two steps another call may run.
WriterRecords == <<Rec("qa", "ca", "x", "y", "z"), Rec("qb", "cb", "x", "y", "z"),
                   Rec("qc", "cc", "x", "y", "z"), Rec("qd", "cd", "x", "y", "z")>>

ConcInit ==
    /\ file \in {Absent, FileOf(<<>>), FileOf(<<BAD>>)}
                 \cup {FileOf(Dump(ListVal(p))) : p \in PriorLists}
    /\ file0 = file
    /\ prevFile = file
    /\ lastData = NoData
    /\ appended = <<>>
    /\ raised = FALSE
    /\ cfg = {}
    /\ dataset = <<>>
    /\ pc = "conc"
    /\ total = 0
    /\ idx = 0
    /\ pbar = 0
    /\ question_data = NoItem
    /\ rg_prompt = NoPrompt
    /\ r = <<>>
    /\ inference = <<>>
    /\ dg_prompt = NoPrompt
    /\ d = <<>>
    /\ result = NoData
    /\ failure = "none"
    /\ calls = <<>>
    /\ answers = <<>>
    /\ Alone

UnderWay(w) == wpc[w] \notin {"start", "returned", "raised"}

\* Line 28: os.path.exists(output_file).
ExistsCheck(w) ==
    /\ pc = "conc"
    /\ wpc[w] = "start"
    /\ wpc' = [wpc EXCEPT ![w] = IF file.exists THEN "open_r" ELSE "open_w"]
    /\ wseen' = [wseen EXCEPT ![w] = Len(appended)]
    /\ overlap' = (overlap \/ \E v \in Writers \ {w} : UnderWay(v))
    /\ UNCHANGED <<storeVars, inputs, resume, wexisting, locals, control>>

\* Mutant: the call does not read the records the file holds.
OpenAndLoadDropsExisting(w) ==
    /\ wpc[w] = "open_r"
    /\ IF AppendRaises(file)
       THEN /\ wpc' = [wpc EXCEPT ![w] = "raised"]
            /\ raised' = TRUE
            /\ UNCHANGED <<wexisting, wseen>>
       ELSE /\ wexisting' = [wexisting EXCEPT ![w] = <<>>]
            /\ wseen' = [wseen EXCEPT ![w] = Len(appended)]
            /\ wpc' = [wpc EXCEPT ![w] = "dump_r"]
            /\ UNCHANGED raised
    /\ UNCHANGED <<file, file0, prevFile, lastData, appended, inputs, resume,
                   overlap, locals, control>>

\* Lines 29-35: open(output_file, 'r+') and json.load(f).
OpenAndLoad(w) ==
    /\ wpc[w] = "open_r"
    /\ IF AppendRaises(file)
       THEN /\ wpc' = [wpc EXCEPT ![w] = "raised"]
            /\ raised' = TRUE
            /\ UNCHANGED <<wexisting, wseen>>
       ELSE /\ wexisting' = [wexisting EXCEPT ![w] = ExistingData(file.content)]
            /\ wseen' = [wseen EXCEPT ![w] = Len(appended)]
            /\ wpc' = [wpc EXCEPT ![w] = "dump_r"]
            /\ UNCHANGED raised
    /\ UNCHANGED <<file, file0, prevFile, lastData, appended, inputs, resume,
                   overlap, locals, control>>

\* Lines 36-38: existing_data.append(data), f.seek(0), json.dump; the call
\* returns.
SeekAndDump(w) ==
    /\ wpc[w] = "dump_r"
    /\ file' = FileOf(Overwrite(file.content,
                    Dump(ListVal(Append(wexisting[w], WriterRecords[w])))))
    /\ appended' = Append(appended, WriterRecords[w])
    /\ wpc' = [wpc EXCEPT ![w] = "returned"]
    /\ UNCHANGED <<file0, prevFile, lastData, raised, inputs, resume,
                   wexisting, wseen, overlap, locals, control>>

\* Line 40: open(output_file, 'w') creates the file or empties it.
OpenTruncate(w) ==
    /\ wpc[w] = "open_w"
    /\ file' = FileOf(<<>>)
    /\ wpc' = [wpc EXCEPT ![w] = "dump_w"]
    /\ UNCHANGED <<file0, prevFile, lastData, appended, raised, inputs, resume,
                   wexisting, wseen, overlap, locals, control>>

\* Line 41: json.dump([data], f) from the start of the file; the call returns.
DumpNew(w) ==
    /\ wpc[w] = "dump_w"
    /\ file' = FileOf(Overwrite(file.content,
                                Dump(ListVal(<<WriterRecords[w]>>))))
    /\ appended' = Append(appended, WriterRecords[w])
    /\ wpc' = [wpc EXCEPT ![w] = "returned"]
    /\ UNCHANGED <<file0, prevFile, lastData, raised, inputs, resume,
                   wexisting, wseen, overlap, locals, control>>

ConcNext ==
    \E w \in Writers :
        \/ ExistsCheck(w)
        \/ OpenAndLoad(w)
        \/ SeekAndDump(w)
        \/ OpenTruncate(w)
        \/ DumpNew(w)

ConcSpec == ConcInit /\ [][ConcNext]_vars

\* ------------------------------------------------ claims about the driver
\* recs appear in existing, together and in order.
Holds(existing, recs) ==
    \E off \in 0..(Len(existing) - Len(recs)) :
        SubSeq(existing, off + 1, off + Len(recs)) = recs

\* What lines 30-35 of the next append call on the file would go on with.
NextExisting ==
    IF file.exists /\ Decodable(file.content)
    THEN ExistingData(file.content) ELSE <<>>

\* C5: after an interrupt at any point, the next append call still reads back
\* every record whose append had returned before the interrupt.
C5_InterruptKeepsReturned ==
    (pc = "interrupted") => Holds(NextExisting, appended)

InBody == pc \in {"rg_prompt", "rg_call", "rationale", "dg_prompt", "dg_call",
                  "extract", "append", "finally"}

\* C6: the progress counter is incremented exactly once per item pulled,
\* whatever the item's outcome; after a whole run it equals the dataset length
\* and the pre-scan's total.
C6_ProgressCountsItems ==
    /\ InBody => pbar = idx - 1
    /\ pc \in {"loop", "done", "aborted"} => pbar = idx
    /\ pc = "done" => pbar = Len(dataset) /\ pbar = total

C6_Witness ==
    /\ pc = "done"
    /\ Len(dataset) = 2
    /\ pbar = 2
    /\ total = 2
    /\ answers = <<<<>>, <<>>>>

\* Item k has its record in the file's list of returned appends.
Persisted(k) ==
    /\ Len(appended) >= k
    /\ appended[k].v[1] = dataset[k].question

C8_NoRetry ==
    /\ [](\A i, j \in 1..Len(calls) : calls[i] = calls[j] => i = j)
    /\ [](failure # "none" => pc \in {"finally", "aborted", "interrupted"})
    /\ [][failure # "none" =>
            /\ failure' = failure
            /\ calls' = calls
            /\ file' = file]_vars

C8_Witness ==
    /\ pc = "aborted"
    /\ failure = "gateway"
    /\ calls = <<<<"rg", 1>>, <<"dg", 1>>, <<"rg", 2>>, <<"dg", 2>>>>
    /\ Len(appended) = 1

\* C9: a configuration error aborts the run before any model call.
C9_ConfigErrorBeforeModelCall ==
    (failure = "config") => calls = <<>>

\* The records a failure-free run stores: item i's question and answer with
\* the extraction of item i's distractor-stage answer.
Expected ==
    [i \in 1..Len(dataset) |->
        Rec(dataset[i].question, dataset[i].correct_answer,
            format_distractor_output(answers[i]).distractor1,
            format_distractor_output(answers[i]).distractor2,
            format_distractor_output(answers[i]).distractor3)]

\* C10: a failure-free run over n items with an initially absent output file
\* leaves exactly the n expected records in dataset order, and a progress of
\* n out of n.
C10_FailureFreeRun ==
    (pc = "done" /\ file0 = Absent) =>
        /\ Len(answers) = Len(dataset)
        /\ pbar = Len(dataset) /\ total = Len(dataset)
        /\ IF dataset = <<>> THEN file = Absent ELSE ParsesAs(file, Expected)

C10_Witness ==
    /\ pc = "done"
    /\ file0 = Absent
    /\ Len(dataset) = 2
    /\ dataset[1] # dataset[2]
    /\ answers = <<<<"x", "y", "z", "u">>, <<"x", "y">>>>
    /\ ParsesAs(file, Expected)

\* The records the output file held before the run.
Prior == IF file0.exists THEN ExistingData(file0.content) ELSE <<>>

\* The output file is exactly what the appends that returned leave behind.
FileHoldsReturned ==
    IF Prior \o appended = <<>> THEN file = Absent
    ELSE file = FileOf(Dump(ListVal(Prior \o appended)))

\* C16: an item whose processing fails leaves the output file as it was: no
\* record is appended for it, and the file holds exactly the records of the
\* items processed before it.
C16_FailedItemLeavesFile ==
    (failure # "none" /\ idx >= 1) =>
        /\ Len(appended) = idx - 1
        /\ \A k \in 1..(idx - 1) : Persisted(k)
        /\ FileHoldsReturned

C16_Witness ==
    /\ pc = "aborted"
    /\ failure = "gateway"
    /\ idx = 2
    /\ calls = <<<<"rg", 1>>, <<"dg", 1>>, <<"rg", 2>>, <<"dg", 2>>>>
    /\ Len(appended) = 1
    /\ FileHoldsReturned

\* The run was ended by a failure in the item pulled last.
AbortedInItem == failure # "none" /\ idx >= 1

\* C17: at the end of every loop iteration the progress counter equals the
\* number of items pulled, and the number of records appended in the run is the
\* counter, or the counter minus one exactly when a failure in the item pulled
\* last ended the run.
C17_CounterAndRecords ==
    (pc \in {"loop", "done", "aborted"}) =>
        /\ pbar = idx
        /\ Len(appended) = IF AbortedInItem THEN pbar - 1 ELSE pbar

C17_Witness ==
    /\ pc = "aborted"
    /\ failure = "config"
    /\ idx = 1
    /\ pbar = 1
    /\ calls = <<<<"rg", 1>>>>
    /\ appended = <<>>

\* The stage of the item pulled last, read off the driver's position: the
\* position after a model call means the prompt was sent, the position after an
\* extraction means it was done.  A failed step leaves the item where it was.
StageRank ==
    CASE pc \in {"rg_prompt", "rg_call"} -> 0       \* PENDING
      [] pc = "rationale" -> 1                       \* PROMPT1_SENT
      [] pc \in {"dg_prompt", "dg_call"} -> 2        \* RATIONALE_EXTRACTED
      [] pc = "extract" -> 3                         \* PROMPT2_SENT
      [] pc = "append" -> 4                          \* DISTRACTORS_EXTRACTED
      [] pc \in {"finally", "loop", "done"} /\ failure = "none" /\ idx >= 1
            -> 5                                     \* PERSISTED
      [] OTHER -> -1                                 \* no item, or run ended

\* The model calls a run has made are those of items 1, 2, ... in turn, the
\* rationale call before the distractor call.
CallsInOrder ==
    \A i \in 1..Len(calls) :
        calls[i] = <<IF i % 2 = 1 THEN "rg" ELSE "dg", (i + 1) \div 2>>

\* C12: an item goes through PENDING, PROMPT1_SENT, RATIONALE_EXTRACTED,
\* PROMPT2_SENT, DISTRACTORS_EXTRACTED, PERSISTED one stage at a time, none
\* skipped or repeated; an item is pulled only when the one before it is
\* PERSISTED, and its first model call comes only after that item's record is
\* stored.
C12_StagesInOrder ==
    /\ [](CallsInOrder)
    /\ [](\A i \in 1..Len(calls) :
            \A k \in 1..(calls[i][2] - 1) : Persisted(k))
    /\ [][/\ (StageRank # -1 /\ StageRank' # -1 /\ idx' = idx)
                => StageRank' \in {StageRank, StageRank + 1}
          /\ (idx' # idx)
                => /\ idx' = idx + 1
                   /\ StageRank' = 0
                   /\ idx >= 1 => StageRank = 5
          /\ (StageRank' = 5 /\ StageRank # 5) => Persisted(idx)']_vars

C12_Witness ==
    /\ pc = "rg_call"
    /\ idx = 2
    /\ calls = <<<<"rg", 1>>, <<"dg", 1>>>>
    /\ Persisted(1)
    /\ StageRank = 0

\* C13: the distractor prompt of an item is determined by the item's question
\* record alone and the stored record by the question record and the
\* distractor-stage answer alone, so two runs that differ only in the rationale
\* texts send the same distractor prompts and store the same records.
C13_RationaleNotUsed ==
    /\ (pc \in {"dg_call", "extract", "append"}) =>
            dg_prompt = [template |-> "dg",
                         question |-> read_test_data_iter(dataset)[idx],
                         principle |-> "",
                         prior |-> <<>>]
    /\ \A k \in 1..Len(appended) :
            /\ k <= Len(answers)
            /\ appended[k] =
                  Rec(dataset[k].question, dataset[k].correct_answer,
                      format_distractor_output(answers[k]).distractor1,
                      format_distractor_output(answers[k]).distractor2,
                      format_distractor_output(answers[k]).distractor3)

C13_Witness ==
    /\ pc = "append"
    /\ idx = 2
    /\ r = <<"preamble", "r1">>
    /\ inference = <<"r1">>
    /\ dg_prompt.prior = <<>>
    /\ dg_prompt.question = question_data
    /\ Len(appended) = 1

\* C15: a run started again after an interrupt between two appends keeps the
\* list the file held as a prefix, starts at the first dataset item again and,
\* when it completes, has added one record per dataset item behind that
\* prefix; records of items the earlier run had stored are stored again.
C15_RestartKeepsAndRepeats ==
    (run >= 2) =>
        /\ IsPrefix(held, Prior \o appended)
        /\ IsPrefix(held, ListOf(file))
        /\ (pc = "rg_prompt" /\ answers = <<>>) =>
                question_data = read_test_data_iter(dataset)[1]
        /\ (pc = "done") =>
                /\ Len(answers) = Len(dataset)
                /\ IF held \o Expected = <<>> THEN file = Absent
                   ELSE ParsesAs(file, held \o Expected)

C15_Witness ==
    /\ run = 2
    /\ pc = "done"
    /\ file0 = Absent
    /\ Len(held) = 1
    /\ Len(dataset) = 2
    /\ Len(answers) = 2
    /\ held[1] = Expected[1]
    /\ ParsesAs(file, held \o Expected)

\* The record is in the list an append call on the file would go on with.
InFile(rec) == \E k \in 1..Len(ListOf(file)) : ListOf(file)[k] = rec

\* The calls that returned and had looked at the file before any call returned.
ReadFirst == {w \in Writers : wpc[w] = "returned" /\ wseen[w] = 0}

\* C11: append calls made one after the other never lose a record; of two
\* calls that both read the file before either wrote, both return and the
\* record of one of them is not in the file.
C11_SerialKeepsInterleavedLoses ==
    /\ (~overlap /\ appended # <<>>) => ParsesAs(file, Prior \o appended)
    /\ (Cardinality(ReadFirst) >= 2) =>
            \E w \in ReadFirst : ~InFile(WriterRecords[w])

C11_Witness ==
    /\ overlap
    /\ file0 = FileOf(Dump(ListVal(<<Rec("q0", "c0", "k", "l", "m")>>)))
    /\ wpc = [w \in Writers |-> "returned"]
    /\ ReadFirst = Writers
    /\ appended[1] = WriterRecords[1]
    /\ ~InFile(WriterRecords[1])
    /\ InFile(WriterRecords[2])
    /\ ParsesAs(file, Prior \o <<WriterRecords[2]>>)

====
